---- MODULE Spec2Model ----
(***************************************************************************)
(* Model of cardner/jazz-night-feed: the full build                        *)
(* (src/scrape-jazz-night.mjs) and the incremental update                  *)
(* (src/update-jazz-night.mjs) of an RSS feed scraped from an archive page.*)
(*                                                                         *)
(* The specifications that share the module:                               *)
(*   Spec            runs of the two programs against one feed file;       *)
(*   SpecConfigured  the same with MAX_EPISODES set in the environment;    *)
(*   SpecExpand      the load-more loop of expandAllStories;               *)
(*   SpecBuild       the full build step by step on a growing document;    *)
(*   SpecExtract     the record of one container, and its date resolved.   *)
(***************************************************************************)
EXTENDS Integers, Sequences, FiniteSets, TLC

VARIABLES
  file,       \* the output file: present or not, its items as written, lastBuildDate
  page,       \* the archive page the browser shows
  now,        \* the wall clock read by new Date()
  prevFile,   \* the output file as it was when the last run started
  lastRun,    \* what the last run did (mode, exit status, inputs, merge result)
  pc,         \* expandAllStories: position in the loop
  clickCount,
  lastEpisodeCount,
  noChangeCount,
  currentEpisodeCount,
  stopReason, \* expandAllStories: which break left the loop
  unchangedRun, \* observer: consecutive triggers whose recount equalled the count before them
  sameRun,    \* observer: consecutive triggers whose recount equalled the previous recount
  streakReset, \* observer: an increase has reset a running stall streak
  dom,        \* step-by-step build: the article.item elements of the document
  ex          \* extraction of one container: its inputs and what came out

feedVars == <<file, page, now, prevFile, lastRun>>
expandVars == <<pc, clickCount, lastEpisodeCount, noChangeCount,
                currentEpisodeCount, stopReason, unchangedRun, sameRun,
                streakReset>>
scrapeVars == <<dom, ex>>
vars == <<file, page, now, prevFile, lastRun, pc, clickCount, lastEpisodeCount,
          noChangeCount, currentEpisodeCount, stopReason, unchangedRun, sameRun,
          streakReset, dom, ex>>

----------------------------------------------------------------------------
(* Bounds of the model.                                                     *)

\* MAX_EPISODES is 100 in the source; the model runs with a small cap.
ScaledCap == 3
\* MAX_NEW_EPISODES_TO_CHECK is 20 in the source.
ScaledCheck == 2
\* Longest archive page (containers with a download link).
MaxPage == 3
\* Runs of the two programs in one behaviour.
MaxRuns == 3
\* Latest date an episode of the page carries; the clock starts after it.
MaxDate == 3
\* Most article.item elements the document holds in the step-by-step build.
MaxDom == 3
\* Most pieces of text in the context of one container.
MaxCtx == 2
\* Most anchors and most block elements in one container.
MaxAnchors == 2
MaxBlocks == 2

----------------------------------------------------------------------------
(* Text.  A string is a sequence of one-character strings.                  *)

RECURSIVE ReplaceAll(_, _, _)
ReplaceAll(s, c, r) ==
  IF s = <<>> THEN <<>>
  ELSE (IF Head(s) = c THEN r ELSE <<Head(s)>>) \o ReplaceAll(Tail(s), c, r)

EntAmp  == <<"&", "a", "m", "p", ";">>
EntLt   == <<"&", "l", "t", ";">>
EntGt   == <<"&", "g", "t", ";">>
EntQuot == <<"&", "q", "u", "o", "t", ";">>
EntApos == <<"&", "a", "p", "o", "s", ";">>

escapeXml(str) ==
  ReplaceAll(ReplaceAll(ReplaceAll(ReplaceAll(ReplaceAll(str,
    "&", EntAmp), "<", EntLt), ">", EntGt), "\"", EntQuot), "'", EntApos)

\* xml2js Builder: text and attribute values are entity-escaped when written.
XmlBuild(str) ==
  ReplaceAll(ReplaceAll(ReplaceAll(ReplaceAll(str,
    "&", EntAmp), "<", EntLt), ">", EntGt), "\"", EntQuot)

StartsWith(s, p) == Len(s) >= Len(p) /\ SubSeq(s, 1, Len(p)) = p
Drop(s, n) == SubSeq(s, n + 1, Len(s))

\* xml2js parseStringPromise: entities are decoded once, left to right.
RECURSIVE XmlParse(_)
XmlParse(s) ==
  IF s = <<>> THEN <<>>
  ELSE IF StartsWith(s, EntAmp)  THEN <<"&">>  \o XmlParse(Drop(s, Len(EntAmp)))
  ELSE IF StartsWith(s, EntLt)   THEN <<"<">>  \o XmlParse(Drop(s, Len(EntLt)))
  ELSE IF StartsWith(s, EntGt)   THEN <<">">>  \o XmlParse(Drop(s, Len(EntGt)))
  ELSE IF StartsWith(s, EntQuot) THEN <<"\"">> \o XmlParse(Drop(s, Len(EntQuot)))
  ELSE IF StartsWith(s, EntApos) THEN <<"'">>  \o XmlParse(Drop(s, Len(EntApos)))
  ELSE <<Head(s)>> \o XmlParse(Tail(s))

----------------------------------------------------------------------------
(* Dates.  An instant is a natural number; NaN is the time value of an      *)
(* Invalid Date, and the text "Invalid Date" that toUTCString gives for it. *)

NaN == -1

FirstNow == MaxDate + 1
LastNow == FirstNow + MaxRuns

EmptyText == [k |-> "empty", t |-> 0]   \* ""
BadText   == [k |-> "bad",   t |-> 0]   \* non-empty text Date cannot parse
DateText(n) == [k |-> "date", t |-> n]  \* text Date parses to instant n

\* new Date(text).getTime()
JsDate(dateText) == IF dateText.k = "date" THEN dateText.t ELSE NaN

\* Date.prototype.toUTCString: the RFC-1123 text of a valid Date, and the
\* text "Invalid Date" otherwise.  The clock is read in whole seconds.
InvalidDateText == [valid |-> FALSE, utc |-> 0]
toUTCString(d) == IF d = NaN THEN InvalidDateText ELSE [valid |-> TRUE, utc |-> d]

\* new Date(pubDateText).getTime()
DateOfPubDate(text) == IF text.valid THEN text.utc ELSE NaN

parseDateToRss_fallbackOnly(dateText, fallback) == toUTCString(fallback)
parseDateToRss(dateText, fallback) ==
  IF dateText.k = "empty" THEN toUTCString(fallback)
  ELSE LET d == JsDate(dateText)
       IN  IF d # NaN THEN toUTCString(d) ELSE toUTCString(fallback)

----------------------------------------------------------------------------
(* Array.prototype.sort as Node runs it on arrays shorter than 64: one      *)
(* initial run is found (and reversed when strictly descending), the rest   *)
(* is placed by binary insertion.  keys[i] is the Date the comparator reads *)
(* for element i; the comparator is (a, b) => key(b) - key(a).              *)

\* comparator(a, b) < 0 ; a NaN difference is not negative
CmpNeg(ka, kb) == ka # NaN /\ kb # NaN /\ kb - ka < 0

RECURSIVE RunEnd(_, _, _)
RunEnd(a, idx, desc) ==
  IF idx > Len(a) THEN Len(a)
  ELSE IF CmpNeg(a[idx].key, a[idx - 1].key) = desc THEN RunEnd(a, idx + 1, desc)
  ELSE idx - 1

Reverse(s) == [i \in 1..Len(s) |-> s[Len(s) + 1 - i]]

RECURSIVE BinarySearch(_, _, _, _)
BinarySearch(a, pivot, left, right) ==
  IF left >= right THEN left
  ELSE LET mid == left + ((right - left) \div 2)
       IN  IF CmpNeg(pivot.key, a[mid].key)
           THEN BinarySearch(a, pivot, left, mid)
           ELSE BinarySearch(a, pivot, mid + 1, right)

RECURSIVE BinaryInsertionSort(_, _)
BinaryInsertionSort(a, start) ==
  IF start > Len(a) THEN a
  ELSE LET pivot == a[start]
           pos == BinarySearch(a, pivot, 1, start)
           placed == SubSeq(a, 1, pos - 1) \o <<pivot>> \o SubSeq(a, pos, start - 1)
                     \o SubSeq(a, start + 1, Len(a))
       IN  BinaryInsertionSort(placed, start + 1)

JsSort(a) ==
  IF Len(a) < 2 THEN a
  ELSE LET desc == CmpNeg(a[2].key, a[1].key)
           run == RunEnd(a, 3, desc)
           made == IF desc THEN Reverse(SubSeq(a, 1, run)) \o SubSeq(a, run + 1, Len(a))
                   ELSE a
       IN  BinaryInsertionSort(made, run + 1)

\* arr.slice(0, n)
Slice(arr, n) == SubSeq(arr, 1, IF Len(arr) < n THEN Len(arr) ELSE n)

----------------------------------------------------------------------------
(* Configuration.                                                           *)

MAX_EPISODES == ScaledCap
MAX_NEW_EPISODES_TO_CHECK == ScaledCheck

\* The full build reads MAX_EPISODES from the environment or the command
\* line; the update script has the constant.
BuildCaps == (MAX_EPISODES - 1)..(MAX_EPISODES + 1)

----------------------------------------------------------------------------
(* The archive page: its containers that carry a download link, in document *)
(* order, each with the audio URL and the date text extraction finds.       *)

UntitledEpisode == <<"Untitled episode">>

Episodes ==
  { [audioUrl |-> <<"u">>,           dateText |-> DateText(1),
     title |-> <<"U">>],
    [audioUrl |-> <<"v">>,           dateText |-> DateText(2),
     title |-> <<"V", "'", "s">>],
    [audioUrl |-> <<"w">>,           dateText |-> DateText(2),
     title |-> <<"W">>],
    [audioUrl |-> <<"u", "&", "v">>, dateText |-> DateText(MaxDate),
     title |-> <<"U", "&", "V">>],
    [audioUrl |-> <<"x">>,           dateText |-> BadText,
     title |-> UntitledEpisode],
    [audioUrl |-> <<"y">>,           dateText |-> EmptyText,
     title |-> <<"Y">>] }

\* results.filter(ep => !seen.has(ep.audioUrl) ...): the first of each URL stays
Dedup_keepAll(results, seen) == results
RECURSIVE Dedup(_, _)
Dedup(results, seen) ==
  IF results = <<>> THEN <<>>
  ELSE IF Head(results).audioUrl \in seen THEN Dedup(Tail(results), seen)
  ELSE <<Head(results)>> \o Dedup(Tail(results), seen \cup {Head(results).audioUrl})

scrapeEpisodes(containers, cap) == Slice(Dedup(containers, {}), cap)

\* downloadAnchors.slice(0, maxCheck): the containers the update looks at
CheckFirst_all(containers) == containers
CheckFirst(containers) == Slice(containers, MAX_NEW_EPISODES_TO_CHECK)

scrapeRecentEpisodes(containers) == Dedup(CheckFirst(containers), {})

\* rawEpisodes.map(ep => ({...ep, dateObj, pubDate, guid})) of both mains
Process(ep, t) ==
  LET dateObj == IF ep.dateText.k # "empty" THEN JsDate(ep.dateText) ELSE t
  IN  [audioUrl |-> ep.audioUrl, dateText |-> ep.dateText, dateObj |-> dateObj,
       pubDate |-> parseDateToRss(ep.dateText, dateObj), guid |-> ep.audioUrl,
       title |-> ep.title]

SortedBy(arr, Key(_)) ==
  LET keyed == [i \in 1..Len(arr) |-> [key |-> Key(arr[i]), val |-> arr[i]]]
      sorted == JsSort(keyed)
  IN  [i \in 1..Len(arr) |-> sorted[i].val]

----------------------------------------------------------------------------
(* The feed file.  An item holds the text of its fields as written.         *)

\* the text of the channel's title and description, apostrophe included
FEED_TITLE == <<"J">>
FEED_DESCRIPTION == <<"N", "'", "s">>
NoChannel == [title |-> <<>>, description |-> <<>>]

NoFile == [exists |-> FALSE, channel |-> NoChannel, items |-> <<>>, lastBuildDate |-> 0]
NoFeed == [channel |-> NoChannel, items |-> <<>>, lastBuildDate |-> 0]

\* episode.title || "Untitled episode"
TitleOrDefault(title) == IF title # <<>> THEN title ELSE UntitledEpisode

\* the channel elements buildRss writes before the items
channelXml ==
  [title |-> escapeXml(FEED_TITLE), description |-> escapeXml(FEED_DESCRIPTION)]

DateObjOf(ep) == ep.dateObj

\* the <item> blocks buildRss writes, in order
buildRss_none(episodes, cap) == <<>>
buildRss(episodes, cap) ==
  LET sorted == Slice(SortedBy(episodes, DateObjOf), cap)
  IN  [i \in 1..Len(sorted) |->
        [title |-> escapeXml(TitleOrDefault(sorted[i].title)),
         url |-> escapeXml(sorted[i].audioUrl),
         guid |-> escapeXml(sorted[i].guid),
         pubDate |-> sorted[i].pubDate]]

\* parseStringPromise(readFile(OUTPUT_FILE)): the tree with decoded text
loadExistingFeed_raw(f) ==
  [channel |-> f.channel, items |-> f.items, lastBuildDate |-> f.lastBuildDate]
loadExistingFeed(f) ==
  [channel |-> [title |-> XmlParse(f.channel.title),
                description |-> XmlParse(f.channel.description)],
   items |-> [i \in 1..Len(f.items) |->
                [title |-> XmlParse(f.items[i].title),
                 url |-> XmlParse(f.items[i].url),
                 guid |-> XmlParse(f.items[i].guid),
                 pubDate |-> f.items[i].pubDate]],
   lastBuildDate |-> f.lastBuildDate]

extractExistingAudioUrls(feedData) ==
  { feedData.items[i].url : i \in 1..Len(feedData.items) }

createItemXml(episode) ==
  [title |-> escapeXml(TitleOrDefault(episode.title)),
   url |-> escapeXml(episode.audioUrl),
   guid |-> escapeXml(episode.guid),
   pubDate |-> episode.pubDate]

RECURSIVE Filter(_, _)
Filter(newEpisodes, existingUrls) ==
  IF newEpisodes = <<>> THEN <<>>
  ELSE IF Head(newEpisodes).audioUrl \in existingUrls
       THEN Filter(Tail(newEpisodes), existingUrls)
       ELSE <<Head(newEpisodes)>> \o Filter(Tail(newEpisodes), existingUrls)

\* newEpisodesFiltered.length === 0
NoNewEpisodes_never(newEpisodesFiltered) == FALSE
NoNewEpisodes(newEpisodesFiltered) == Len(newEpisodesFiltered) = 0

PubDateOf(item) == DateOfPubDate(item.pubDate)

\* allItems.slice(0, MAX_EPISODES)
LimitItems_noSlice(allItems) == allItems
LimitItems(allItems) == Slice(allItems, MAX_EPISODES)

\* returns whether the feed was updated, and the feed object after the call
updateFeedWithNewEpisodes(existingFeed, newEpisodes, existingUrls, t) ==
  LET newEpisodesFiltered == Filter(newEpisodes, existingUrls)
      processedNewEpisodes ==
        [i \in 1..Len(newEpisodesFiltered) |-> Process(newEpisodesFiltered[i], t)]
      newItemsXml ==
        [i \in 1..Len(processedNewEpisodes) |-> createItemXml(processedNewEpisodes[i])]
      allItems == SortedBy(newItemsXml \o existingFeed.items, PubDateOf)
      limitedItems == LimitItems(allItems)
  IN  IF NoNewEpisodes(newEpisodesFiltered)
      THEN [wasUpdated |-> FALSE, feed |-> existingFeed]
      ELSE [wasUpdated |-> TRUE,
            feed |-> [existingFeed EXCEPT !.items = limitedItems,
                                          !.lastBuildDate = t]]

\* builder.buildObject(feedData) written to OUTPUT_FILE
saveFeed(feedData) ==
  [exists |-> TRUE,
   channel |-> [title |-> XmlBuild(feedData.channel.title),
                description |-> XmlBuild(feedData.channel.description)],
   items |-> [i \in 1..Len(feedData.items) |->
                [title |-> XmlBuild(feedData.items[i].title),
                 url |-> XmlBuild(feedData.items[i].url),
                 guid |-> XmlBuild(feedData.items[i].guid),
                 pubDate |-> feedData.items[i].pubDate]],
   lastBuildDate |-> feedData.lastBuildDate]

----------------------------------------------------------------------------
(* Extraction of one container (specification SpecExtract).                 *)

\* Text here is a sequence of pieces.  An audio URL is written character by
\* character; the text of a container is a sequence of pieces, each a date
\* in one of four notations or other text.

DigitChars == <<"0", "1", "2", "3", "4", "5", "6", "7", "8", "9">>
IsDigit(c) == \E i \in 1..Len(DigitChars) : DigitChars[i] = c
DigitVal(c) == (CHOOSE i \in 1..Len(DigitChars) : DigitChars[i] = c) - 1
IsDigits(str) == \A i \in 1..Len(str) : IsDigit(str[i])
RECURSIVE Num(_)
Num(str) == IF str = <<>> THEN 0
            ELSE 10 * Num(SubSeq(str, 1, Len(str) - 1)) + DigitVal(str[Len(str)])

\* an instant, counted in days; every month is given 31 of them
Ordinal(year, month, day) == (year - 2000) * 372 + (month - 1) * 31 + day

\* /\/(\d{4})\/\d{2}\/(\d{8})/ matches at position i
UrlDateMatchAt(str, i) ==
  /\ i + 16 <= Len(str)
  /\ str[i] = "/" /\ IsDigits(SubSeq(str, i + 1, i + 4))
  /\ str[i + 5] = "/" /\ IsDigits(SubSeq(str, i + 6, i + 7))
  /\ str[i + 8] = "/" /\ IsDigits(SubSeq(str, i + 9, i + 16))

\* Strategy 1: the datestamp of the first match, written YYYY-MM-DD
UrlDate_none(audioUrl) == <<>>
UrlDate(audioUrl) ==
  LET hits == { i \in 1..Len(audioUrl) : UrlDateMatchAt(audioUrl, i) }
  IN  IF hits = {} THEN <<>>
      ELSE LET i == CHOOSE h \in hits : \A g \in hits : h <= g
               dateStr == SubSeq(audioUrl, i + 9, i + 16)
           IN  SubSeq(dateStr, 1, 4) \o <<"-">> \o SubSeq(dateStr, 5, 6)
                 \o <<"-">> \o SubSeq(dateStr, 7, 8)

\* the dates a container's text can show, by the pattern that matches them
FullMonthDates == {"October 14, 2025", "October 45, 2025"}
AbbrMonthDates == {"Oct 13, 2025"}
IsoDates       == {"2025-10-12"}
SlashDates     == {"10/11/2025"}
Pieces == FullMonthDates \cup AbbrMonthDates \cup IsoDates \cup SlashDates \cup {"Listen"}

\* contextText.match(pattern): the first piece the pattern matches, as text
RECURSIVE Match(_, _)
Match(contextText, pattern) ==
  IF contextText = <<>> THEN <<>>
  ELSE IF Head(contextText) \in pattern THEN <<Head(contextText)>>
  ELSE Match(Tail(contextText), pattern)

\* the date strategies of scrapeEpisodes (scrape-jazz-night.mjs)
extractDateText(audioUrl, contextText) ==
  IF UrlDate(audioUrl) # <<>> THEN UrlDate(audioUrl)
  ELSE IF Match(contextText, FullMonthDates) # <<>> THEN Match(contextText, FullMonthDates)
  ELSE IF Match(contextText, AbbrMonthDates) # <<>> THEN Match(contextText, AbbrMonthDates)
  ELSE IF Match(contextText, IsoDates) # <<>> THEN Match(contextText, IsoDates)
  ELSE Match(contextText, SlashDates)

\* the date text of scrapeRecentEpisodes (src/update-jazz-night.mjs)
recentDateText(contextText) == Match(contextText, FullMonthDates)

\* new Date(text).getTime() on the text extraction produces
IsIsoText(text) ==
  /\ Len(text) = 10
  /\ IsDigits(SubSeq(text, 1, 4)) /\ text[5] = "-"
  /\ IsDigits(SubSeq(text, 6, 7)) /\ text[8] = "-"
  /\ IsDigits(SubSeq(text, 9, 10))
PieceDate(piece) ==
  CASE piece = "October 14, 2025" -> Ordinal(2025, 10, 14)
    [] piece = "Oct 13, 2025"     -> Ordinal(2025, 10, 13)
    [] piece = "2025-10-12"       -> Ordinal(2025, 10, 12)
    [] piece = "10/11/2025"       -> Ordinal(2025, 10, 11)
    [] OTHER                      -> NaN
JsDateOfText(text) ==
  IF text = <<>> THEN NaN
  ELSE IF IsIsoText(text)
  THEN LET month == Num(SubSeq(text, 6, 7))
           day == Num(SubSeq(text, 9, 10))
       IN  IF month \in 1..12 /\ day \in 1..31
           THEN Ordinal(Num(SubSeq(text, 1, 4)), month, day)
           ELSE NaN
  ELSE IF Len(text) = 1 THEN PieceDate(text[1])
  ELSE NaN

\* the date text as the Date Resolver sees it
Classify(text) ==
  IF text = <<>> THEN EmptyText
  ELSE IF JsDateOfText(text) = NaN THEN BadText
  ELSE DateText(JsDateOfText(text))

\* audio URLs: host, directory, file name
UrlHost == <<"n">>
UrlDirs == { <<"/", "2", "0", "2", "5", "/", "1", "0", "/">>,
             <<"/", "2", "0", "2", "5", "/", "9", "/">>,
             <<"/", "s", "/">> }
UrlStamps == { <<"2", "0", "2", "5", "1", "0", "1", "4">>,
               <<"2", "0", "2", "5", "1", "3", "4", "5">>,
               <<"2", "0", "2", "5", "1", "0", "1">>,
               <<"x">> }
UrlTails == { <<"_", "x">>, <<"5", "_", "x">> }
Contexts == UNION { [1..n -> Pieces] : n \in 0..MaxCtx }
Fallbacks == {NaN, Ordinal(2026, 1, 1), Ordinal(2026, 1, 2)}

\* The anchors of a container, in document order: the text, what the href
\* is (an article page with the year in its path, a page without, the audio
\* download, the embedded player) and the tag of the parent element.
Anchors ==
  { [text |-> <<"Alpha">>,    href |-> [kind |-> "article",  id |-> 1], parentTag |-> "H2"],
    [text |-> <<"Beta">>,     href |-> [kind |-> "article",  id |-> 2], parentTag |-> "DIV"],
    [text |-> <<>>,           href |-> [kind |-> "article",  id |-> 1], parentTag |-> "DIV"],
    [text |-> <<"Jazz">>,     href |-> [kind |-> "section",  id |-> 3], parentTag |-> "H2"],
    [text |-> <<"Download">>, href |-> [kind |-> "ondemand", id |-> 4], parentTag |-> "LI"],
    [text |-> <<"Embed">>,    href |-> [kind |-> "embed",    id |-> 5], parentTag |-> "LI"] }

NoAnchor == [text |-> <<>>, href |-> [kind |-> "none", id |-> 0], parentTag |-> "none"]

\* text && !href.includes("ondemand.npr.org") && !href.includes("player/embed")
\* && /\/20\d{2}\//.test(href)
QualifiesAsTitle(el) ==
  /\ el.text # <<>>
  /\ el.href.kind # "ondemand"
  /\ el.href.kind # "embed"
  /\ el.href.kind = "article"

TitleCandidates(anchors) == SelectSeq(anchors, QualifiesAsTitle)

\* /H[12]/i.test(el.parentElement?.tagName || "")
IsHeadingTag(tag) == tag \in {"H1", "H2"}
HasHeadingParent(el) == IsHeadingTag(el.parentTag)

\* the full build: Array.from(article.querySelectorAll("a")).find(...)
titleAnchor(anchors) ==
  LET candidates == TitleCandidates(anchors)
  IN  IF candidates = <<>> THEN NoAnchor ELSE candidates[1]

\* the update script: candidates.find(heading parent) || candidates[0]
findTitleAnchor(anchors) ==
  LET candidates == TitleCandidates(anchors)
      headings == SelectSeq(candidates, HasHeadingParent)
  IN  IF candidates = <<>> THEN NoAnchor
      ELSE IF headings # <<>> THEN headings[1] ELSE candidates[1]

\* titleAnchor?.textContent?.trim() || "Untitled episode"
TitleOf_empty(el) == el.text
TitleOf(el) == IF el.text # <<>> THEN el.text ELSE UntitledEpisode

\* titleAnchor?.href || audioUrl
LinkOf(el, audioUrl) ==
  IF el # NoAnchor THEN el.href ELSE [kind |-> "ondemand", id |-> audioUrl]

\* the fragment "Listen" followed by a middle dot
ListenDot == "Listen ."

\* The block elements (p, span, div) of a container: the words of the text
\* and whether the text is longer than 40 characters.
Blocks ==
  { [words |-> <<"Alpha", "live">>,         long |-> TRUE],
    [words |-> <<"Download", "Embed">>,     long |-> TRUE],
    [words |-> <<ListenDot, "set">>,       long |-> TRUE],
    [words |-> <<"A", "night", "of", "jazz">>, long |-> TRUE],
    [words |-> <<"short">>,                 long |-> FALSE] }

Includes(words, word) == \E i \in 1..Len(words) : words[i] = word
IncludesText(words, text) == \E i \in 1..Len(text) : Includes(words, text[i])

\* what follows the first bullet of the text: nothing when there is no
\* bullet, else the words after it, blank ones among them
Blank == " "
AfterBullet == { <<>>, <<Blank>>, <<Blank, "recap", Blank>> }

\* .replace(/\s+/g, " ").trim()
RECURSIVE Trim(_)
Trim(words) ==
  IF words = <<>> THEN <<>>
  ELSE IF Head(words) = Blank THEN Trim(Tail(words))
  ELSE IF words[Len(words)] = Blank THEN Trim(SubSeq(words, 1, Len(words) - 1))
  ELSE words

\* the build's test of a block
DescribesBuild(block, title) ==
  /\ block.words # <<>> /\ block.long
  /\ ~IncludesText(block.words, title)
  /\ ~Includes(block.words, ListenDot)
  /\ ~Includes(block.words, "Download")
  /\ ~Includes(block.words, "Embed")

\* the update script's test of a block
DescribesRecent(block, title) ==
  /\ block.words # <<>> /\ block.long
  /\ ~IncludesText(block.words, title)
  /\ ~Includes(block.words, ListenDot)

FirstBlock(blocks, title, Describes(_, _)) ==
  LET hits == { i \in 1..Len(blocks) : Describes(blocks[i], title) }
  IN  IF hits = {} THEN <<>>
      ELSE blocks[CHOOSE h \in hits : \A g \in hits : h <= g].words

\* the text after the bullet if that leaves any, else the first block that
\* passes the test
descriptionOf(afterBullet, blocks, title, Describes(_, _)) ==
  IF Trim(afterBullet) # <<>> THEN Trim(afterBullet)
  ELSE FirstBlock(blocks, title, Describes)

\* The update script reads the date and the bullet in the text of the title
\* anchor's parent when it has a title anchor, else in the container; the
\* container's own text is outside that parent.
recentContext(el, text) == IF el # NoAnchor THEN <<>> ELSE text

AnchorLists == UNION { [1..n -> Anchors] : n \in 0..MaxAnchors }
BlockLists == UNION { [1..n -> Blocks] : n \in 0..MaxBlocks }

NoRecord == [title |-> <<>>, link |-> NoAnchor.href, dateText |-> <<>>,
             audioUrl |-> <<>>, description |-> <<>>]

ExIdle == [pc |-> "idle", dir |-> <<>>, stamp |-> <<>>, audioUrl |-> <<>>,
           contextText |-> <<>>, fallback |-> NaN, dateText |-> <<>>,
           recent |-> <<>>, pubDate |-> InvalidDateText,
           anchors |-> <<>>, afterBullet |-> <<>>, blocks |-> <<>>,
           chosen |-> NoAnchor, recentChosen |-> NoAnchor,
           record |-> NoRecord, recentRecord |-> NoRecord]

ExInputs ==
  { [ExIdle EXCEPT !.pc = "in", !.dir = dir, !.stamp = stamp,
                   !.audioUrl = UrlHost \o dir \o stamp \o tail,
                   !.contextText = contextText, !.fallback = fallback] :
      dir \in UrlDirs, stamp \in UrlStamps, tail \in UrlTails,
      contextText \in Contexts, fallback \in Fallbacks }

\* a container whose audio URL and text are fixed and whose anchors, bullet
\* and blocks vary
PlainUrl == UrlHost \o <<"/", "s", "/">> \o <<"x">> \o <<"_", "x">>
TitleInputs ==
  { [ExIdle EXCEPT !.pc = "in", !.audioUrl = PlainUrl,
                   !.anchors = anchors, !.afterBullet = afterBullet,
                   !.blocks = blocks] :
      anchors \in AnchorLists, afterBullet \in AfterBullet, blocks \in BlockLists }

\* the body of the full build's loop for the container: the record it pushes
ExtractDate ==
  /\ ex.pc = "in"
  /\ LET el == titleAnchor(ex.anchors)
         title == TitleOf(el)
         dateText == extractDateText(ex.audioUrl, ex.contextText)
     IN  ex' = [ex EXCEPT !.pc = "dated",
                          !.dateText = dateText,
                          !.chosen = el,
                          !.record = [title |-> title,
                                      link |-> LinkOf(el, ex.audioUrl),
                                      dateText |-> dateText,
                                      audioUrl |-> ex.audioUrl,
                                      description |->
                                        descriptionOf(ex.afterBullet, ex.blocks,
                                                      title, DescribesBuild)]]
  /\ UNCHANGED <<feedVars, expandVars, dom>>

\* the record the update script pushes for the same container
ExtractRecentDate ==
  /\ ex.pc = "dated"
  /\ LET el == findTitleAnchor(ex.anchors)
         title == TitleOf(el)
         dateText == recentDateText(recentContext(el, ex.contextText))
     IN  ex' = [ex EXCEPT !.pc = "both",
                          !.recent = dateText,
                          !.recentChosen = el,
                          !.recentRecord =
                             [title |-> title,
                              link |-> LinkOf(el, ex.audioUrl),
                              dateText |-> dateText,
                              audioUrl |-> ex.audioUrl,
                              description |->
                                descriptionOf(recentContext(el, ex.afterBullet),
                                              ex.blocks, title, DescribesRecent)]]
  /\ UNCHANGED <<feedVars, expandVars, dom>>

\* parseDateToRss(dateText, fallback)
Resolve ==
  /\ ex.pc = "both"
  /\ ex' = [ex EXCEPT !.pc = "resolved",
                      !.pubDate = parseDateToRss(Classify(ex.dateText), ex.fallback)]
  /\ UNCHANGED <<feedVars, expandVars, dom>>

----------------------------------------------------------------------------
(* Runs of the two programs.                                                *)

NoRun == [mode |-> "none", exit |-> 0, wrote |-> FALSE, at |-> 0,
          cap |-> 0, found |-> <<>>, mem |-> NoFeed,
          repeat |-> FALSE, navigated |-> FALSE, raised |-> FALSE]

\* What can throw inside the try block of each main before the file is
\* written: page.goto, page.evaluate (counting, extraction), and in the
\* update readFile / parseStringPromise.
BuildErrors == {"navigation", "count", "extract"}
UpdateErrors == {"parse", "navigation", "extract"}

\* try { ... } catch (err) { process.exitCode = 1 }: a throw skips the rest
Caught_never(err) == FALSE
Caught(err) == err # "none"

\* the update reads and parses the file before it opens the page
Navigated(err) == err # "parse"

\* checkFileExists(OUTPUT_FILE) is false
FeedMissing_never(f) == FALSE
FeedMissing(f) == ~f.exists

\* a run that ended in the catch block: nothing written, exit status 1
FailedRun(mode, err) ==
  [NoRun EXCEPT !.mode = mode, !.exit = 1,
                !.navigated = Navigated(err), !.raised = TRUE]

\* The site lists its episodes newest first: a new container appears on top
\* and the oldest leaves the part of the archive the browser is shown.  An
\* episode is listed once, or twice in a row (a featured block repeats it).
OnPage(ep) == \E i \in 1..Len(page) : page[i] = ep
Publish(ep) ==
  /\ now < LastNow
  /\ OnPage(ep) => (page[1] = ep /\ (Len(page) > 1 => page[2] # ep))
  /\ page' = Slice(<<ep>> \o page, MaxPage)
  /\ lastRun' = NoRun
  /\ prevFile' = file
  /\ UNCHANGED <<file, now, expandVars, scrapeVars>>

\* main of scrape-jazz-night.mjs; `page` is what the expanded archive shows
\* and err is what is thrown on the way ("none": nothing).  A run that
\* throws never reads the clock for a date, so the clock is left as it is.
BuildFeed(containers, cap, err) ==
  /\ now < LastNow
  /\ LET rawEpisodes == scrapeEpisodes(containers, cap)
         episodes == [i \in 1..Len(rawEpisodes) |-> Process(rawEpisodes[i], now)]
         rss == [exists |-> TRUE, channel |-> channelXml,
                 items |-> buildRss(episodes, cap), lastBuildDate |-> now]
     IN  IF Caught(err)
         THEN /\ file' = file
              /\ lastRun' = FailedRun("build", err)
              /\ now' = now
         ELSE /\ file' = rss
              /\ lastRun' = [mode |-> "build", exit |-> 0, wrote |-> TRUE, at |-> now,
                             cap |-> cap, found |-> rawEpisodes,
                             mem |-> NoFeed,
                             repeat |-> FALSE, navigated |-> TRUE,
                             raised |-> (err # "none")]
              /\ now' = now + 1
  /\ prevFile' = file

FullBuild(cap, err) ==
  /\ BuildFeed(page, cap, err)
  /\ UNCHANGED <<page, expandVars, scrapeVars>>

\* main of update-jazz-night.mjs when OUTPUT_FILE does not exist
UpdateNoFeed ==
  /\ now < LastNow
  /\ FeedMissing(file)
  /\ lastRun' = [NoRun EXCEPT !.mode = "update", !.exit = 1, !.cap = MAX_EPISODES,
                             !.at = now]
  /\ prevFile' = file
  /\ now' = now + 1
  /\ UNCHANGED <<file, page, expandVars, scrapeVars>>

\* main of update-jazz-night.mjs on an existing feed
Update(err) ==
  /\ now < LastNow
  /\ ~FeedMissing(file)
  /\ LET existingFeed == loadExistingFeed(file)
         existingUrls == extractExistingAudioUrls(existingFeed)
         recentEpisodes == scrapeRecentEpisodes(page)
         res == updateFeedWithNewEpisodes(existingFeed, recentEpisodes, existingUrls, now)
     IN  IF Caught(err)
         THEN /\ file' = file
              /\ lastRun' = FailedRun("update", err)
              /\ now' = now
         ELSE /\ file' = IF res.wasUpdated THEN saveFeed(res.feed) ELSE file
              /\ lastRun' = [mode |-> "update", exit |-> 0, wrote |-> res.wasUpdated,
                             at |-> now,
                             cap |-> MAX_EPISODES,
                             found |-> Filter(recentEpisodes, existingUrls),
                             mem |-> res.feed,
                             repeat |-> (lastRun.mode = "update" /\ lastRun.exit = 0),
                             navigated |-> TRUE,
                             raised |-> (err # "none")]
              /\ now' = now + 1
  /\ prevFile' = file
  /\ UNCHANGED <<page, expandVars, scrapeVars>>

----------------------------------------------------------------------------
(* expandAllStories: the load-more loop.  The page is the environment: each *)
(* page.evaluate returns whatever number of qualifying containers the DOM   *)
(* holds at that moment.                                                    *)

maxClicks == 50
StallLimit == 3
MaxCount == MAX_EPISODES + 1
Counts == 0..MaxCount

\* currentEpisodeCount >= MAX_EPISODES
ReachedCap_never(count) == FALSE
ReachedCap(count) == count >= MAX_EPISODES

\* clickCount >= maxClicks
ReachedMaxClicks_never == FALSE
ReachedMaxClicks == clickCount >= maxClicks

CountUnchanged(newEpisodeCount) == newEpisodeCount = lastEpisodeCount

\* noChangeCount++ on an unchanged count, noChangeCount = 0 otherwise
NextNoChange_noReset(newEpisodeCount) ==
  IF CountUnchanged(newEpisodeCount) THEN noChangeCount + 1 ELSE noChangeCount
NextNoChange(newEpisodeCount) ==
  IF CountUnchanged(newEpisodeCount) THEN noChangeCount + 1 ELSE 0

Sat(n) == IF n > StallLimit THEN StallLimit + 1 ELSE n

Stop(reason) == pc' = "done" /\ stopReason' = reason

\* top of the loop: count, the two limits, then the button checks
LoopTop(count, present, visible) ==
  /\ pc = "top"
  /\ currentEpisodeCount' = count
  /\ IF ReachedCap(count) THEN Stop("cap")
     ELSE IF ReachedMaxClicks THEN Stop("maxClicks")
     ELSE IF ~present THEN Stop("noButton")
     ELSE IF ~visible THEN Stop("notVisible")
     ELSE pc' = "click" /\ stopReason' = stopReason
  /\ UNCHANGED <<clickCount, lastEpisodeCount, noChangeCount, unchangedRun,
                 sameRun, streakReset, feedVars, scrapeVars>>

\* clickCount++ and btn.click({force: true}), which may throw
\* catch (e) { console.log(...); break; }
CatchClick_rethrow == pc' = "failed" /\ stopReason' = "clickFailed"
CatchClick == Stop("clickFailed")

Click(throws) ==
  /\ pc = "click"
  /\ clickCount' = clickCount + 1
  /\ IF throws THEN CatchClick
     ELSE pc' = "recount" /\ stopReason' = stopReason
  /\ UNCHANGED <<lastEpisodeCount, noChangeCount, currentEpisodeCount,
                 unchangedRun, sameRun, streakReset, feedVars, scrapeVars>>

\* after the 10 s wait: recount and the stall check
Recount(newEpisodeCount) ==
  /\ pc = "recount"
  /\ noChangeCount' = NextNoChange(newEpisodeCount)
  /\ IF CountUnchanged(newEpisodeCount) /\ noChangeCount + 1 >= StallLimit
     THEN Stop("stalled")
     ELSE pc' = "top" /\ stopReason' = stopReason
  /\ lastEpisodeCount' =
       IF CountUnchanged(newEpisodeCount) /\ noChangeCount + 1 >= StallLimit
       THEN lastEpisodeCount ELSE newEpisodeCount
  /\ unchangedRun' =
       IF newEpisodeCount = currentEpisodeCount THEN Sat(unchangedRun + 1) ELSE 0
  /\ sameRun' =
       IF newEpisodeCount = lastEpisodeCount THEN Sat(sameRun + 1) ELSE 0
  /\ streakReset' =
       (streakReset \/ (newEpisodeCount > lastEpisodeCount /\ noChangeCount > 0))
  /\ UNCHANGED <<clickCount, currentEpisodeCount, feedVars, scrapeVars>>

----------------------------------------------------------------------------
(* The full build step by step: gotoArchive, expandAllStories on the        *)
(* document as it grows, scrapeEpisodes, buildRss and writeFile.            *)

\* an <a> inside li.audio-tool-download: the host of its href ("none" when
\* the element has no href) and the URL
NoHref == [host |-> "none", url |-> <<>>]
OnDemand(url) == [host |-> "ondemand", url |-> url]
OtherHost(url) == [host |-> "other", url |-> url]

\* article.item elements: whether li.audio-tool-download is there, the
\* anchors inside it in document order, and the date text of the article
Articles ==
  { [li |-> TRUE,  anchors |-> <<OnDemand(<<"u">>)>>,         dateText |-> DateText(1)],
    [li |-> TRUE,  anchors |-> <<OnDemand(<<"v">>)>>,         dateText |-> DateText(2)],
    [li |-> TRUE,  anchors |-> <<OtherHost(<<"z">>)>>,        dateText |-> DateText(2)],
    [li |-> TRUE,  anchors |-> <<NoHref, OnDemand(<<"w">>)>>, dateText |-> DateText(MaxDate)],
    [li |-> FALSE, anchors |-> <<>>,                          dateText |-> EmptyText] }

\* the filter of the counting page.evaluate: downloadLi.querySelector("a")
\* is the first anchor, and it must have an href
CountQualifies(article) ==
  /\ article.li
  /\ Len(article.anchors) > 0
  /\ article.anchors[1].host # "none"

CountQualifying(d) == Cardinality({ i \in 1..Len(d) : CountQualifies(d[i]) })

\* downloadLi.querySelector("a[href*='ondemand.npr.org']"): the first anchor
\* whose href has the host, 0 when there is none
RECURSIVE FirstOnDemand(_, _)
FirstOnDemand(anchors, i) ==
  IF i > Len(anchors) THEN 0
  ELSE IF anchors[i].host = "ondemand" THEN i
  ELSE FirstOnDemand(anchors, i + 1)

ExtractQualifies(article) == article.li /\ FirstOnDemand(article.anchors, 1) # 0

\* the results array of scrapeEpisodes before the duplicates are removed
RECURSIVE Results(_)
Results(d) ==
  IF d = <<>> THEN <<>>
  ELSE (IF ExtractQualifies(Head(d))
        THEN <<[audioUrl |-> Head(d).anchors[FirstOnDemand(Head(d).anchors, 1)].url,
                dateText |-> Head(d).dateText,
                title |-> UntitledEpisode]>>
        ELSE <<>>) \o Results(Tail(d))

\* what the archive shows when gotoArchive returns
FirstLoads == {<<>>} \cup { <<a>> : a \in Articles } \cup { <<a, b>> : a, b \in Articles }

loopVars == <<clickCount, lastEpisodeCount, noChangeCount, currentEpisodeCount,
              stopReason, unchangedRun, sameRun, streakReset>>

\* a throw that reaches the catch block of main
Fail(err) ==
  /\ pc' = "failed"
  /\ lastRun' = FailedRun("build", err)
  /\ prevFile' = file
  /\ UNCHANGED <<file, page, now, loopVars, dom, ex>>

GotoArchive(first, throws) ==
  /\ pc = "goto"
  /\ IF throws THEN Fail("navigation")
     ELSE /\ dom' = first
          /\ pc' = "top"
          /\ UNCHANGED <<feedVars, loopVars, ex>>

\* page.evaluate of the count throws
CountThrows ==
  /\ pc \in {"top", "recount"}
  /\ Fail("count")

BuildLoopTop(present, visible) == LoopTop(CountQualifying(dom), present, visible)

\* the click made the page add a container during the 10 s wait
LoadMore(article) ==
  /\ pc = "recount"
  /\ Len(dom) < MaxDom
  /\ dom' = Append(dom, article)
  /\ UNCHANGED <<feedVars, expandVars, ex>>

BuildRecount == Recount(CountQualifying(dom))

\* scrapeEpisodes, the map of main, buildRss and writeFile
ExtractAndWrite(err) ==
  /\ pc = "done"
  /\ BuildFeed(Results(dom), MAX_EPISODES, err)
  /\ pc' = IF Caught(err) THEN "failed" ELSE "written"
  /\ UNCHANGED <<page, loopVars, dom, ex>>

----------------------------------------------------------------------------
(* Specifications.                                                          *)

ExpandIdle ==
  /\ pc = "top" /\ clickCount = 0 /\ lastEpisodeCount = 0 /\ noChangeCount = 0
  /\ currentEpisodeCount = 0 /\ stopReason = "none"
  /\ unchangedRun = 0 /\ sameRun = 0 /\ streakReset = FALSE

Init ==
  /\ file = NoFile
  /\ page = <<>>
  /\ now = FirstNow
  /\ prevFile = NoFile
  /\ lastRun = NoRun
  /\ ExpandIdle
  /\ dom = <<>>
  /\ ex = ExIdle

Next ==
  \/ \E ep \in Episodes : Publish(ep)
  \/ \E cap \in BuildCaps : FullBuild(cap, "none")
  \/ \E err \in BuildErrors : FullBuild(MAX_EPISODES, err)
  \/ UpdateNoFeed
  \/ \E err \in UpdateErrors \cup {"none"} : Update(err)

Spec == Init /\ [][Next]_vars

\* A deployment whose environment sets MAX_EPISODES for every run of either
\* script (MAX_EPISODES=25 npm run build, then npm run update).
ConfiguredCap == MAX_EPISODES - 1

NextConfigured ==
  \/ \E ep \in Episodes : Publish(ep)
  \/ FullBuild(ConfiguredCap, "none")
  \/ Update("none")

SpecConfigured == Init /\ [][NextConfigured]_vars

NextExpand ==
  \/ \E count \in Counts, present \in BOOLEAN, visible \in BOOLEAN :
       LoopTop(count, present, visible)
  \/ \E throws \in BOOLEAN : Click(throws)
  \/ \E newEpisodeCount \in Counts : Recount(newEpisodeCount)

SpecExpand == Init /\ [][NextExpand]_vars

\* the loop is one sequential async function: it always takes its next step
SpecExpandFair == SpecExpand /\ WF_vars(NextExpand)

\* what OUTPUT_FILE holds when the build starts: nothing, or a feed of an
\* earlier run with an episode the archive no longer shows
OldEpisode == [audioUrl |-> <<"o">>, dateText |-> DateText(1), title |-> <<"O">>]
OldFeed == [exists |-> TRUE, channel |-> channelXml,
            items |-> <<createItemXml(Process(OldEpisode, 0))>>,
            lastBuildDate |-> 0]
PriorFiles == {NoFile, OldFeed}

InitBuild ==
  /\ file \in PriorFiles /\ page = <<>> /\ now = FirstNow /\ prevFile = NoFile
  /\ lastRun = NoRun
  /\ pc = "goto" /\ clickCount = 0 /\ lastEpisodeCount = 0 /\ noChangeCount = 0
  /\ currentEpisodeCount = 0 /\ stopReason = "none"
  /\ unchangedRun = 0 /\ sameRun = 0 /\ streakReset = FALSE
  /\ dom = <<>>
  /\ ex = ExIdle

NextBuild ==
  \/ \E first \in FirstLoads, throws \in BOOLEAN : GotoArchive(first, throws)
  \/ CountThrows
  \/ \E present \in BOOLEAN, visible \in BOOLEAN : BuildLoopTop(present, visible)
  \/ \E throws \in BOOLEAN : Click(throws)
  \/ \E article \in Articles : LoadMore(article)
  \/ BuildRecount
  \/ \E err \in {"none", "extract"} : ExtractAndWrite(err)

SpecBuild == InitBuild /\ [][NextBuild]_vars

InitExtract ==
  /\ file = NoFile /\ page = <<>> /\ now = FirstNow /\ prevFile = NoFile
  /\ lastRun = NoRun
  /\ ExpandIdle
  /\ dom = <<>>
  /\ ex \in ExInputs \cup TitleInputs

NextExtract == ExtractDate \/ ExtractRecentDate \/ Resolve

SpecExtract == InitExtract /\ [][NextExtract]_vars

----------------------------------------------------------------------------
(* Properties of the feed runs (specification Spec).                        *)

\* the feed as the loader reads it
Loaded(f) == loadExistingFeed(f).items
LoadedUrls(f) == { Loaded(f)[i].url : i \in 1..Len(f.items) }
HasDate(item) == item.pubDate.valid
UpdateRan == lastRun.mode = "update" /\ lastRun.exit = 0 /\ prevFile.exists
\* the containers the update looked at
Checked == Slice(page, MAX_NEW_EPISODES_TO_CHECK)

\* C1: an incremental update that runs against the page a completed update
\* has just run against finds no new episode and does not write the file:
\* the feed after two runs is the feed after one.
C1_SecondUpdateIsNoOp ==
  (lastRun.mode = "update" /\ lastRun.repeat)
    => (Len(lastRun.found) = 0 /\ ~lastRun.wrote /\ file = prevFile)

\* C2: no two items of the persisted feed have the same enclosure URL.
C2_UniqueEnclosureUrls ==
  \A i, j \in 1..Len(file.items) :
    i < j => Loaded(file)[i].url # Loaded(file)[j].url

\* C3: a feed written by a run holds at most that run's MAX_EPISODES items.
C3_AtMostMaxEpisodes ==
  lastRun.wrote => Len(file.items) <= lastRun.cap

C3_Witness ==
  /\ UpdateRan /\ lastRun.wrote
  /\ Len(prevFile.items) + Len(lastRun.found) > MAX_EPISODES
  /\ Len(file.items) = MAX_EPISODES

\* C4: the items a run writes are in non-increasing order of date: no item
\* is older than an item that comes after it.  (An item whose date text did
\* not parse carries no date in the feed and is passed over here.)
C4_SortedByDate ==
  lastRun.wrote =>
    \A i, j \in 1..Len(file.items) :
      (i < j /\ HasDate(file.items[i]) /\ HasDate(file.items[j]))
        => file.items[i].pubDate.utc >= file.items[j].pubDate.utc

\* C5: on a feed of exactly MAX_EPISODES items, an update that finds k new
\* episodes, each newer than every existing item, leaves a feed of
\* MAX_EPISODES items that has every new episode and lacks exactly the k
\* oldest of the items it had.
NewerThanAll(ep, f) ==
  LET d == Process(ep, lastRun.at).dateObj
  IN  /\ d # NaN
      /\ \A i \in 1..Len(f.items) :
           HasDate(f.items[i]) /\ d > f.items[i].pubDate.utc
C5_Case ==
  /\ UpdateRan
  /\ Len(prevFile.items) = MAX_EPISODES
  /\ Len(lastRun.found) >= 1
  /\ \A n \in 1..Len(lastRun.found) : NewerThanAll(lastRun.found[n], prevFile)
Evicted == { i \in 1..Len(prevFile.items) : Loaded(prevFile)[i].url \notin LoadedUrls(file) }
C5_NewInOldestOut ==
  C5_Case =>
    /\ Len(file.items) = MAX_EPISODES
    /\ \A n \in 1..Len(lastRun.found) : lastRun.found[n].audioUrl \in LoadedUrls(file)
    /\ Cardinality(Evicted) = Len(lastRun.found)
    /\ \A i \in Evicted, j \in (1..Len(prevFile.items)) \ Evicted :
         prevFile.items[i].pubDate.utc <= prevFile.items[j].pubDate.utc

\* C6: when every scraped episode is already in the feed, the merge reports
\* no change, the loaded feed object is left as loaded, the file is not
\* written and the run exits with status 0.
AllScrapedExist ==
  \A i \in 1..Len(Checked) : Checked[i].audioUrl \in LoadedUrls(prevFile)
C6_NoChangeLeavesFeed ==
  (UpdateRan /\ AllScrapedExist) =>
    /\ ~lastRun.wrote
    /\ lastRun.mem = loadExistingFeed(prevFile)
    /\ file = prevFile
    /\ lastRun.exit = 0

C6_Witness ==
  /\ UpdateRan /\ AllScrapedExist /\ Len(Checked) > 0
  /\ ~lastRun.wrote /\ file = prevFile

\* C12: every item of the persisted feed carries a valid timestamp as its
\* pubDate, whatever date text extraction found for its episode.
C12_PubDateValid ==
  \A i \in 1..Len(file.items) : HasDate(file.items[i])

\* C13: when a full build extracts more distinct episodes than its
\* MAX_EPISODES, no dropped episode is newer than a kept one: the feed keeps
\* the newest, in whatever order the document lists them.  (Episodes whose
\* date text does not parse have no date to compare and are passed over.)
Extracted == Dedup(page, {})
ResolvedDate(ep) == Process(ep, lastRun.at).dateObj
Kept(ep) == ep.audioUrl \in LoadedUrls(file)
C13_KeepsNewest ==
  (lastRun.mode = "build" /\ lastRun.exit = 0 /\ Len(Extracted) > lastRun.cap) =>
    \A a, b \in 1..Len(Extracted) :
      ( /\ Kept(Extracted[a]) /\ ~Kept(Extracted[b])
        /\ ResolvedDate(Extracted[a]) # NaN /\ ResolvedDate(Extracted[b]) # NaN )
        => ResolvedDate(Extracted[b]) <= ResolvedDate(Extracted[a])

\* C14: an update that finds no output file ends with a non-zero exit
\* status without opening the page or extracting anything, and leaves the
\* file absent.
C14_MissingFeedFailsEarly ==
  (lastRun.mode = "update" /\ ~prevFile.exists) =>
    /\ lastRun.exit # 0
    /\ ~lastRun.navigated
    /\ Len(lastRun.found) = 0
    /\ ~file.exists

C14_Witness ==
  /\ lastRun.mode = "update" /\ ~prevFile.exists /\ Len(page) > 0
  /\ lastRun.exit = 1 /\ ~file.exists

\* C15: a run in which navigation, counting, extraction or feed parsing
\* throws ends with a non-zero exit status and leaves the output file with
\* the content it had when the run started.
C15_ErrorMeansNoWrite ==
  lastRun.raised => (lastRun.exit # 0 /\ ~lastRun.wrote /\ file = prevFile)

C15_Witness ==
  /\ lastRun.raised /\ lastRun.mode = "update" /\ lastRun.navigated
  /\ file.exists /\ ~AllScrapedExist
  /\ lastRun.exit = 1 /\ file = prevFile

\* C17: for every item of the persisted feed, the enclosure URL and the guid
\* the loader reads back are the audioUrl extraction took from the page.
AudioUrls == { ep.audioUrl : ep \in Episodes }
C17_KeyRoundTrip ==
  \A i \in 1..Len(file.items) :
    /\ Loaded(file)[i].url \in AudioUrls
    /\ Loaded(file)[i].guid = Loaded(file)[i].url

BuildRan == lastRun.mode = "build" /\ lastRun.exit = 0

NoSharedAudioUrl(records) ==
  \A i, j \in 1..Len(records) : i # j => records[i].audioUrl # records[j].audioUrl

\* the records are some of the containers, in the order of the containers
RECURSIVE InDocumentOrder(_, _)
InDocumentOrder(records, containers) ==
  IF records = <<>> THEN TRUE
  ELSE IF containers = <<>> THEN FALSE
  ELSE IF Head(records) = Head(containers)
       THEN InDocumentOrder(Tail(records), Tail(containers))
       ELSE InDocumentOrder(records, Tail(containers))

UrlsOf(records) == { records[i].audioUrl : i \in 1..Len(records) }

\* what one pass of an extractor returns from the page as it is
PassOf(records, examined, cap) ==
  /\ NoSharedAudioUrl(records)
  /\ InDocumentOrder(records, examined)
  /\ Cardinality(UrlsOf(examined)) <= cap => UrlsOf(records) = UrlsOf(examined)

\* C21: within one extraction pass no two returned records share an
\* audioUrl: containers with the same audioUrl collapse to one record, and
\* the records that stay are in document order.  Both extractors.
C21_OnePerAudioUrl ==
  /\ BuildRan => PassOf(lastRun.found, page, lastRun.cap)
  /\ UpdateRan => PassOf(scrapeRecentEpisodes(page), Checked, MAX_NEW_EPISODES_TO_CHECK)

\* a build of a page whose first two containers are the same episode
C21_Witness ==
  /\ BuildRan /\ Len(page) = MaxPage /\ page[1] = page[2]
  /\ Len(lastRun.found) = Len(page) - 1

\* C22: an update never triggers load-more, and it looks at no more than the
\* first MAX_NEW_EPISODES_TO_CHECK containers of the page in document order:
\* its candidates are at most that many, all of them among those containers.
C22_UpdateChecksFirstOnly ==
  /\ [][lastRun'.mode = "update" => clickCount' = clickCount /\ pc' = pc]_vars
  /\ [](UpdateRan =>
          /\ Len(lastRun.found) <= MAX_NEW_EPISODES_TO_CHECK
          /\ UrlsOf(lastRun.found) \subseteq UrlsOf(Checked))

\* an update that leaves a new episode alone because it is past the window
C22_Witness ==
  /\ UpdateRan /\ Len(page) > MAX_NEW_EPISODES_TO_CHECK
  /\ page[Len(page)].audioUrl \notin LoadedUrls(prevFile)
  /\ page[Len(page)].audioUrl \notin UrlsOf(Checked)
  /\ Len(lastRun.found) = MAX_NEW_EPISODES_TO_CHECK

\* C27: an update removes an item the feed had only when the merged list is
\* longer than the cap and the item is among the oldest of it, those past
\* the cap: no item that stays is older than an item that goes.  Every other
\* item the feed had is in the feed after the update.
C27_OnlyOverflowRemoved ==
  UpdateRan =>
    \A i \in Evicted :
      /\ Len(prevFile.items) + Len(lastRun.found) > MAX_EPISODES
      /\ \A j \in 1..Len(file.items) :
           (HasDate(prevFile.items[i]) /\ HasDate(file.items[j]))
             => prevFile.items[i].pubDate.utc <= file.items[j].pubDate.utc

\* the same where every item of the feed and of the merge carries a date
AllDated(f) == \A i \in 1..Len(f.items) : HasDate(f.items[i])
NewAllDated ==
  \A n \in 1..Len(lastRun.found) : Process(lastRun.found[n], lastRun.at).pubDate.valid
OverflowRemovedWhenDated ==
  (AllDated(prevFile) /\ NewAllDated) => C27_OnlyOverflowRemoved

\* C29: when an update writes the file, the feed it writes has at least one
\* of the scraped episodes the feed did not have before: the update never
\* writes the items it found in the file again, not even when the feed is at
\* the cap and the new episode is older than every item of it.
NewItem(n) == createItemXml(Process(lastRun.found[n], lastRun.at))
C29_WriteAddsEpisode ==
  (UpdateRan /\ lastRun.wrote) =>
    /\ \E n \in 1..Len(lastRun.found), j \in 1..Len(lastRun.mem.items) :
         lastRun.mem.items[j] = NewItem(n)
    /\ Loaded(file) # Loaded(prevFile)

\* C28: an update that adds episodes changes the item list and the
\* lastBuildDate of the loaded feed and nothing else: every item of the
\* prior feed that stays reads back with every field as it read before, and
\* the other elements of the channel read back as they read before.
Retained == (1..Len(prevFile.items)) \ Evicted
C28_UpdateFrame ==
  (UpdateRan /\ lastRun.wrote) =>
    /\ loadExistingFeed(file).channel = loadExistingFeed(prevFile).channel
    /\ \A i \in Retained :
         \E j \in 1..Len(file.items) : Loaded(file)[j] = Loaded(prevFile)[i]

\* an update keeps an item the build wrote with &apos; in the title; the
\* builder writes the apostrophe itself, and the item reads back the same
C28_Witness ==
  /\ UpdateRan /\ lastRun.wrote
  /\ \E i \in Retained, j \in 1..Len(file.items) :
       /\ Loaded(prevFile)[i].title = <<"V", "'", "s">>
       /\ Loaded(file)[j] = Loaded(prevFile)[i]
       /\ file.items[j].title # prevFile.items[i].title

\* C26: the configured MAX_EPISODES bounds the feed in both modes: after a
\* full build with that value and any number of updates the feed holds no
\* more items than it.
C26_ConfiguredCapBounds ==
  file.exists => Len(file.items) <= ConfiguredCap

----------------------------------------------------------------------------
(* Properties of the load-more loop (specifications SpecExpand and          *)
(* SpecExpandFair).                                                         *)

\* C7: the loop ends, and it ends after at most maxClicks triggers, whatever
\* counts the page shows.
C7_EndsWithinMaxClicks ==
  /\ [](clickCount <= maxClicks)
  /\ <>(pc = "done")

C7_Witness ==
  pc = "done" /\ stopReason = "maxClicks" /\ clickCount = maxClicks

\* C8: once three triggers in a row have each left the count as it was before
\* the trigger, the loop has stopped as stalled.
C8_StopsAfterThirdUnchanged ==
  unchangedRun >= StallLimit => (pc = "done" /\ stopReason = "stalled")

\* C9: a recount above the previous one resets the stall streak, and a stall
\* stop comes only after three triggers in a row that repeated the count.
C9_IncreaseResetsStreak ==
  /\ [][(pc = "recount" /\ lastEpisodeCount' > lastEpisodeCount)
          => noChangeCount' = 0]_vars
  /\ [](stopReason = "stalled" => sameRun >= StallLimit)

C9_Witness ==
  streakReset /\ pc = "done" /\ stopReason = "stalled"

\* C10: a trigger is issued only in an iteration whose count at its start was
\* below MAX_EPISODES.
C10_NoTriggerAtCap ==
  [][clickCount' # clickCount => currentEpisodeCount < MAX_EPISODES]_vars

C10_Witness ==
  pc = "done" /\ stopReason = "cap" /\ clickCount = 0
    /\ currentEpisodeCount >= MAX_EPISODES

----------------------------------------------------------------------------
(* Properties of the step-by-step full build (specification SpecBuild).     *)

AffordanceStops == {"noButton", "notVisible", "clickFailed"}
FeedOf(d) ==
  LET rawEpisodes == scrapeEpisodes(Results(d), MAX_EPISODES)
      episodes == [i \in 1..Len(rawEpisodes) |-> Process(rawEpisodes[i], lastRun.at)]
  IN  buildRss(episodes, MAX_EPISODES)

\* C11: when the load-more button is absent, is not visible or its click
\* throws, the loop ends without an error reaching main, and the build that
\* goes on to write has written the feed of the containers loaded so far
\* with exit status 0.
C11_LoopExitIsNotFatal ==
  /\ [][(pc \in {"top", "click"} /\ stopReason' \in AffordanceStops)
          => (pc' = "done" /\ lastRun' = lastRun /\ file' = file)]_vars
  /\ []((pc = "written" /\ stopReason \in AffordanceStops)
          => (lastRun.exit = 0 /\ lastRun.wrote /\ file.exists
              /\ file.items = FeedOf(dom)))

C11_Witness ==
  /\ pc = "written" /\ stopReason = "clickFailed"
  /\ lastRun.exit = 0 /\ Len(file.items) > 0

\* C16: on every state of the document the load-more loop sees, the number
\* of containers the loop counts is the number of containers the extractor
\* makes a record of.
C16_CountMatchesExtraction ==
  pc \in {"top", "click", "recount", "done"}
    => CountQualifying(dom) = Len(Results(dom))

----------------------------------------------------------------------------
(* Properties of the extraction of one container (specification             *)
(* SpecExtract).                                                            *)

Iso20251014 == <<"2", "0", "2", "5", "-", "1", "0", "-", "1", "4">>
Iso20251345 == <<"2", "0", "2", "5", "-", "1", "3", "-", "4", "5">>

\* C18: the resolver gives the fallback, as it is, for empty and for
\* unparseable date text, and the parsed date for parseable date text
\* whatever the fallback: "2025-10-14" gives 14 October 2025.
C18_ResolverTotal ==
  ex.pc = "resolved" =>
    LET d == JsDateOfText(ex.dateText)
    IN  /\ d = NaN => ex.pubDate = toUTCString(ex.fallback)
        /\ d # NaN => ex.pubDate = [valid |-> TRUE, utc |-> d]
        /\ ex.dateText = Iso20251014
             => ex.pubDate = [valid |-> TRUE, utc |-> Ordinal(2025, 10, 14)]

C18_Witness ==
  /\ ex.pc = "resolved" /\ ex.dateText = Iso20251345
  /\ ex.fallback # NaN /\ ex.pubDate = [valid |-> TRUE, utc |-> ex.fallback]

\* C19: for an audio URL with a directory /YYYY/MM/ followed by an 8-digit
\* datestamp, the date text the full build's extractor produces is the
\* datestamp written YYYY-MM-DD.
DirIsYearMonth(dir) ==
  /\ Len(dir) = 9
  /\ dir[1] = "/" /\ IsDigits(SubSeq(dir, 2, 5))
  /\ dir[6] = "/" /\ IsDigits(SubSeq(dir, 7, 8))
  /\ dir[9] = "/"
StampIsEightDigits(stamp) == Len(stamp) = 8 /\ IsDigits(stamp)
C19_UrlDatestamp ==
  ( /\ ex.pc \in {"dated", "both", "resolved"}
    /\ DirIsYearMonth(ex.dir) /\ StampIsEightDigits(ex.stamp) )
    => ex.dateText = <<ex.stamp[1], ex.stamp[2], ex.stamp[3], ex.stamp[4], "-",
                       ex.stamp[5], ex.stamp[6], "-", ex.stamp[7], ex.stamp[8]>>

C19_Witness ==
  /\ ex.pc = "dated" /\ ex.dateText = Iso20251014
  /\ Match(ex.contextText, FullMonthDates) # <<>>

\* C20: the date text of a container is what the first of these gives that
\* gives anything: the datestamp of the URL, the full month-name pattern,
\* the abbreviated month-name pattern, the ISO pattern, the slash pattern;
\* it is empty when none does.  This holds for the extractor of the full
\* build and for the extractor of the update.
Candidates ==
  << UrlDate(ex.audioUrl),
     Match(ex.contextText, FullMonthDates),
     Match(ex.contextText, AbbrMonthDates),
     Match(ex.contextText, IsoDates),
     Match(ex.contextText, SlashDates) >>
FirstCandidate ==
  LET hits == { i \in 1..Len(Candidates) : Candidates[i] # <<>> }
  IN  IF hits = {} THEN <<>>
      ELSE Candidates[CHOOSE h \in hits : \A g \in hits : h <= g]
C20_StrategyOrder ==
  ex.pc \in {"both", "resolved"}
    => (ex.dateText = FirstCandidate /\ ex.recent = FirstCandidate)

\* C23: of several title candidates the extractor takes one whose parent is
\* a heading if there is one, and the first candidate only when none has a
\* heading parent.  Both extractors.
HeadingPreferred(el, anchors) ==
  LET candidates == TitleCandidates(anchors)
  IN  candidates # <<>> =>
        IF \E i \in 1..Len(candidates) : HasHeadingParent(candidates[i])
        THEN HasHeadingParent(el) /\ \E i \in 1..Len(candidates) : candidates[i] = el
        ELSE el = candidates[1]
C23_HeadingParentFirst ==
  /\ ex.pc \in {"dated", "both", "resolved"} => HeadingPreferred(ex.chosen, ex.anchors)
  /\ ex.pc \in {"both", "resolved"} => HeadingPreferred(ex.recentChosen, ex.anchors)

\* the same for the update script alone
RecentHeadingPreferred ==
  ex.pc \in {"both", "resolved"} => HeadingPreferred(ex.recentChosen, ex.anchors)

\* C24: a container with an audio URL gives a record whatever else it lacks:
\* with no title candidate the title is "Untitled episode" and the link is
\* the audio URL, with no date the dateText is empty, with no bullet and no
\* block that describes it the description is empty; the title is never
\* empty.
C24_RecordWithoutOptionals ==
  ex.pc \in {"dated", "both", "resolved"} =>
    /\ ex.record.audioUrl = ex.audioUrl
    /\ ex.record.title # <<>>
    /\ TitleCandidates(ex.anchors) = <<>> =>
          /\ ex.record.title = UntitledEpisode
          /\ ex.record.link = [kind |-> "ondemand", id |-> ex.audioUrl]
    /\ (UrlDate(ex.audioUrl) = <<>> /\ ex.contextText = <<>>) => ex.record.dateText = <<>>
    /\ (Trim(ex.afterBullet) = <<>> /\ ex.blocks = <<>>) => ex.record.description = <<>>

\* a container with anchors none of which is a title candidate, no date, no
\* description
C24_Witness ==
  /\ ex.pc = "dated" /\ ex.anchors # <<>> /\ TitleCandidates(ex.anchors) = <<>>
  /\ ex.blocks = <<>> /\ ex.afterBullet = <<Blank>>
  /\ ex.record = [title |-> UntitledEpisode,
                  link |-> [kind |-> "ondemand", id |-> ex.audioUrl],
                  dateText |-> <<>>, audioUrl |-> ex.audioUrl, description |-> <<>>]

\* C25: the update's extractor gives for a container the record the full
\* build's extractor gives: the same title, link, dateText, audioUrl and
\* description.
C25_SameRecord ==
  ex.pc \in {"both", "resolved"} => ex.recentRecord = ex.record

----------------------------------------------------------------------------
(* More properties of the step-by-step full build (SpecBuild).              *)

\* C30: a full build that ends without an error writes the file once, as its
\* last step, and what it writes is the episodes extracted in that run with
\* the duplicates removed and the cap applied, with nothing of the file it
\* found; with no episode extracted it writes a feed with no items over the
\* file it found.
ExtractedNow == scrapeEpisodes(Results(dom), MAX_EPISODES)
WrittenUrls == { file.items[i].url : i \in 1..Len(file.items) }
C30_WritesOnceWhatItExtracted ==
  /\ [][(file' # file \/ lastRun'.wrote) => (pc = "done" /\ pc' = "written")]_vars
  /\ [](pc = "written" =>
          /\ lastRun.wrote /\ file.exists
          /\ Len(file.items) = Len(ExtractedNow)
          /\ WrittenUrls = { escapeXml(ExtractedNow[i].audioUrl) :
                                i \in 1..Len(ExtractedNow) }
          /\ \A i \in 1..Len(prevFile.items) : prevFile.items[i].url \notin WrittenUrls)
  /\ [](pc # "written" => file \in PriorFiles)

\* a build that extracts nothing leaves an empty feed where a feed with an
\* item was
C30_Witness ==
  /\ pc = "written" /\ prevFile = OldFeed /\ dom # <<>>
  /\ ExtractedNow = <<>> /\ file.exists /\ file.items = <<>>

====
